---- MODULE Spec2Model ----
(***************************************************************************)
(* A model of the replicated key-value store of lemenkovdd/ddsp:           *)
(*   router.Router      (src/src/router/router/router.go)                  *)
(*   frontend.Frontend  (src/src/frontend/frontend/frontend.go)            *)
(* The packages storage (error values, ReplicationFactor, MinRedundancy),  *)
(* router/client and the NodesFinder implementation are not part of the    *)
(* sources at hand; they are modelled from the written specification.      *)
(*                                                                         *)
(* Time is counted in milliseconds.  Addresses are small integers.         *)
(***************************************************************************)
EXTENDS Integers, Sequences, FiniteSets, TLC

VARIABLES
    MinRedundancy,      \* storage.MinRedundancy (M), fixed for a run
    ReplicationFactor,  \* storage.ReplicationFactor (R), fixed for a run
    clock,              \* time.Now()
    heartbeat,          \* Router.heartbeat : map[ServiceAddr]time.Time
    reply,              \* the last value a Router method returned
    initOnce,           \* Frontend.initOnce : sync.Once
    routerNodes,        \* Frontend.routerNodes
    listLog,            \* history of the List RPCs issued by the Frontend
    req,                \* the Frontend calls, one per client
    built,              \* whether router.New has run, how it ended and when
    store,              \* Node.storage of every node: map[RecordID][]byte
    beat,               \* the heartbeat loop of a Node and a call of Node.Stop
    served              \* the last call a Node served directly, and its return

vars == <<MinRedundancy, ReplicationFactor, clock, heartbeat, reply,
          initOnce, routerNodes, listLog, req, built, store, beat, served>>

routerVars == <<clock, heartbeat, reply, built>>
frontendVars == <<initOnce, routerNodes, listLog, req>>
configVars == <<MinRedundancy, ReplicationFactor>>
nodeVars == <<store, beat, served>>

-----------------------------------------------------------------------------
(* Bounds of the model *)

\* number of addresses in the roster (cfg.Nodes); also the largest R tried
NumNodes == 3
\* number of record keys
NumKeys == 2
\* number of clock advances
MaxTicks == 3
\* number of failed List RPCs
MaxListFails == 2
\* number of clients calling Get concurrently
NumGets == 2

-----------------------------------------------------------------------------
(* Constants of the program *)

InitTimeout == 100

ForgetTimeout == 100

\* the clock advances in steps of this many milliseconds
TickStep == InitTimeout

MaxClock == MaxTicks * TickStep

Nil == "nil"

ErrUnknownDaemon == "ErrUnknownDaemon"

ErrNotEnoughDaemons == "ErrNotEnoughDaemons"

ErrQuorumNotReached == "ErrQuorumNotReached"

ErrRecordExists == "ErrRecordExists"

ErrRecordNotFound == "ErrRecordNotFound"

\* an error of the RPC transport, a kind of its own in the tallies
ErrTransport == "ErrTransport"

\* cfg.Nodes of the Router, in configuration order
Roster == [i \in 1..NumNodes |-> i]

Range(s) == {s[i] : i \in 1..Len(s)}

RosterSet == Range(Roster)

\* the roster and one address that is not served by the Router
Addrs == 1..(NumNodes + 1)

Keys == 1..NumKeys

\* the zero time.Time, what a Go map returns for a missing key
ZeroTime == 0 - (MaxClock + ForgetTimeout + 1)

\* the values of (MinRedundancy, ReplicationFactor) a run may be built with
Configs == {c \in (1..NumNodes) \X (1..NumNodes) : c[1] <= c[2]}

\* Node.storage of every node right after node.New: no record
NoStore == [n \in RosterSet |-> <<>>]

\* no heartbeat loop was started and Node.Stop was not called
NoBeat == [loop |-> "off", stop |-> "idle", wake |-> 0, sent |-> <<>>,
           addr |-> 0, every |-> 0]

\* no Node method was called directly
NoCall == [op |-> "none", node |-> 0, k |-> 0, d |-> <<>>, data |-> <<>>,
           err |-> Nil, before |-> <<>>]

\* the key read in the runs with concurrent Gets
GetKeys == {k \in Keys : k <= 1}

\* the configurations of the runs with concurrent Gets
GetConfigs == {c \in Configs : c[2] <= 1}

-----------------------------------------------------------------------------
(* Placement function (NodesFinder) *)

Score(k, a) == (3 * k * a + a * a) % 5

Before(k, a, b) == Score(k, a) < Score(k, b) \/ (Score(k, a) = Score(k, b) /\ a < b)

RECURSIVE SortByScore(_, _)
SortByScore(k, S) ==
    IF S = {} THEN <<>>
    ELSE LET m == CHOOSE x \in S : \A y \in S \ {x} : Before(k, x, y)
         IN  <<m>> \o SortByScore(k, S \ {m})

Min(a, b) == IF a <= b THEN a ELSE b

\* NodesFinder.NodesFind(k, nodes): the first min(R, |nodes|) by score
Placement(k, nodes) ==
    LET sorted == SortByScore(k, Range(nodes))
    IN  SubSeq(sorted, 1, Min(ReplicationFactor, Len(sorted)))

-----------------------------------------------------------------------------
(* Router *)

MapGet(m, a) == IF a \in DOMAIN m THEN m[a] ELSE ZeroTime

\* a faulty variant: the write refreshes every entry of the table
MapSetAll(m, a, v) == [x \in DOMAIN m \cup {a} |-> v]

\* router.go:79   r.heartbeat[node] = ...: the entry is written, or added
MapSet(m, a, v) == [x \in DOMAIN m \cup {a} |-> IF x = a THEN v ELSE m[x]]

Reply(op, arg, val, err, hb0) ==
    [op |-> op, arg |-> arg, val |-> val, err |-> err, at |-> clock, hb0 |-> hb0]

\* a faulty variant: every address is taken for a served one
HeartbeatKnownAny(hb, node) == TRUE

\* router.go:75   _, ok := r.heartbeat[node]
HeartbeatKnown(hb, node) == node \in DOMAIN hb

\* Router.Heartbeat(node), under the write lock
Heartbeat(node) ==
    /\ IF ~HeartbeatKnown(heartbeat, node)
       THEN /\ reply' = Reply("Heartbeat", node, <<>>, ErrUnknownDaemon, heartbeat)
            /\ UNCHANGED heartbeat
       ELSE /\ heartbeat' = MapSet(heartbeat, node, clock)
            /\ reply' = Reply("Heartbeat", node, <<>>, Nil, heartbeat)
    /\ UNCHANGED <<clock, built, configVars, frontendVars, nodeVars>>

\* a faulty variant: a heartbeat exactly ForgetTimeout old is forgotten
AliveStrict(now, t) == now - t < ForgetTimeout

\* router.go:97   now.Sub(r.heartbeat[node]) <= r.conf.ForgetTimeout
Alive(now, t) == now - t <= ForgetTimeout

\* router.go:95-101   the loop over the placement
RECURSIVE foundNodes(_, _, _)
foundNodes(nodes, hb, now) ==
    IF nodes = <<>> THEN <<>>
    ELSE LET rest == foundNodes(Tail(nodes), hb, now)
         IN  IF Alive(now, MapGet(hb, Head(nodes)))
             THEN <<Head(nodes)>> \o rest
             ELSE rest

\* router.go:103   len(foundNodes) < storage.MinRedundancy
TooFew(found) == Len(found) < MinRedundancy

\* Router.NodesFind(k) evaluated on table hb at time now: nodes and error
NodesFindResult(k, hb, now) ==
    LET found == foundNodes(Placement(k, Roster), hb, now)
    IN  IF TooFew(found)
        THEN [nodes |-> <<>>, err |-> ErrNotEnoughDaemons]
        ELSE [nodes |-> found, err |-> Nil]

\* Router.NodesFind(k).  The table is read entry by entry under the read
\* lock; the call is one step here, evaluated on the table it finds.
NodesFind(k) ==
    /\ LET r == NodesFindResult(k, heartbeat, clock)
       IN  reply' = Reply("NodesFind", k, r.nodes, r.err, heartbeat)
    /\ UNCHANGED <<clock, heartbeat, built, configVars, frontendVars, nodeVars>>

\* router.go:114   return r.conf.Nodes
ListResult == Roster

\* Router.List()
List ==
    /\ reply' = Reply("List", 0, ListResult, Nil, heartbeat)
    /\ UNCHANGED <<clock, heartbeat, built, configVars, frontendVars, nodeVars>>

\* the clock advances
Tick ==
    /\ clock + TickStep <= MaxClock
    /\ clock' = clock + TickStep
    /\ UNCHANGED <<heartbeat, reply, built, configVars, frontendVars, nodeVars>>

\* a faulty variant: the roster is measured against MinRedundancy
NewRejectsBelowMin(nodes) == Len(nodes) < MinRedundancy

\* router.go:48   len(cfg.Nodes) < storage.ReplicationFactor
NewRejects(nodes) == Len(nodes) < ReplicationFactor

\* router.New(cfg): no Router on a roster that is too short, else a Router
\* whose table holds the construction time for every node of the roster
New ==
    /\ built.st = "no"
    /\ IF NewRejects(Roster)
       THEN /\ built' = [st |-> "failed", at |-> clock]
            /\ reply' = Reply("New", 0, <<>>, ErrNotEnoughDaemons, heartbeat)
            /\ UNCHANGED heartbeat
       ELSE /\ built' = [st |-> "ok", at |-> clock]
            /\ heartbeat' = [n \in Range(Roster) |-> clock]
            /\ reply' = Reply("New", 0, <<>>, Nil, heartbeat)
    /\ UNCHANGED <<clock, configVars, frontendVars, nodeVars>>

-----------------------------------------------------------------------------
(* Node *)

\* part_000:84, 101, 118   _, ok := node.storage[k]
Has(st, k) == k \in DOMAIN st

\* part_000:104   delete(node.storage, k)
MapDelete(st, k) == [x \in DOMAIN st \ {k} |-> st[x]]

\* a faulty variant: Put overwrites the record it finds
NodePutOverwrite(st, k, d) == [st |-> MapSet(st, k, d), err |-> Nil]

\* a faulty variant: Put answers success and stores nothing
NodePutForgets(st, k, d) ==
    IF Has(st, k) THEN [st |-> st, err |-> ErrRecordExists]
    ELSE [st |-> st, err |-> Nil]

\* part_000:84-89   Node.Put on storage st: the storage left and the error
NodePutResult(st, k, d) ==
    IF Has(st, k) THEN [st |-> st, err |-> ErrRecordExists]
    ELSE [st |-> MapSet(st, k, d), err |-> Nil]

\* a faulty variant: Del answers success and leaves the record
NodeDelKeeps(st, k) ==
    IF ~Has(st, k) THEN [st |-> st, err |-> ErrRecordNotFound]
    ELSE [st |-> st, err |-> Nil]

\* part_000:101-106   Node.Del on storage st
NodeDelResult(st, k) ==
    IF ~Has(st, k) THEN [st |-> st, err |-> ErrRecordNotFound]
    ELSE [st |-> MapDelete(st, k), err |-> Nil]

\* part_000:118-122   Node.Get on storage st: the bytes and the error
NodeGetResult(st, k) ==
    IF Has(st, k) THEN [data |-> st[k], err |-> Nil]
    ELSE [data |-> <<>>, err |-> ErrRecordNotFound]

\* Node.Put(k, d) on node n, under the write lock
NodePut(n, k, d) ==
    /\ LET r == NodePutResult(store[n], k, d)
       IN  /\ store' = [store EXCEPT ![n] = r.st]
           /\ served' = [op |-> "Put", node |-> n, k |-> k, d |-> d, data |-> <<>>,
                         err |-> r.err, before |-> store[n]]
    /\ UNCHANGED <<configVars, routerVars, frontendVars, beat>>

\* Node.Del(k) on node n, under the write lock
NodeDel(n, k) ==
    /\ LET r == NodeDelResult(store[n], k)
       IN  /\ store' = [store EXCEPT ![n] = r.st]
           /\ served' = [op |-> "Del", node |-> n, k |-> k, d |-> <<>>, data |-> <<>>,
                         err |-> r.err, before |-> store[n]]
    /\ UNCHANGED <<configVars, routerVars, frontendVars, beat>>

\* Node.Get(k) on node n, under the read lock
NodeGet(n, k) ==
    /\ LET r == NodeGetResult(store[n], k)
       IN  served' = [op |-> "Get", node |-> n, k |-> k, d |-> <<>>, data |-> r.data,
                      err |-> r.err, before |-> store[n]]
    /\ UNCHANGED <<configVars, routerVars, frontendVars, store, beat>>

\* part_000:54-56   Node.Heartbeats(): the goroutine of the loop starts
Heartbeats ==
    /\ beat.loop = "off"
    /\ beat' = [beat EXCEPT !.loop = "select"]
    /\ UNCHANGED <<configVars, routerVars, frontendVars, store, served>>

\* a faulty variant: the loop never takes the stop signal
StopSeenNever(b) == FALSE

\* part_000:58   case <-node.heartbeat: ready when Stop is parked in its send
StopSeen(b) == b.stop = "sending"

\* part_000:57-60   the select of the loop: the stop signal if Stop is
\* waiting with it, in which case the send of Stop and the loop both
\* return, and the default branch otherwise
BeatSelect ==
    /\ beat.loop = "select"
    /\ IF StopSeen(beat)
       THEN beat' = [beat EXCEPT !.loop = "returned", !.stop = "returned"]
       ELSE /\ clock + beat.every <= MaxClock
            /\ beat' = [beat EXCEPT !.loop = "rpc"]
    /\ UNCHANGED <<configVars, routerVars, frontendVars, store, served>>

\* part_000:61-62   the Heartbeat RPC, served by Router.Heartbeat, and the
\* start of the sleep; the error of the RPC is dropped
BeatRpc ==
    /\ beat.loop = "rpc"
    /\ IF ~HeartbeatKnown(heartbeat, beat.addr)
       THEN /\ reply' = Reply("Heartbeat", beat.addr, <<>>, ErrUnknownDaemon, heartbeat)
            /\ UNCHANGED heartbeat
       ELSE /\ heartbeat' = MapSet(heartbeat, beat.addr, clock)
            /\ reply' = Reply("Heartbeat", beat.addr, <<>>, Nil, heartbeat)
    /\ beat' = [beat EXCEPT !.loop = "sleep", !.wake = clock + beat.every,
                            !.sent = Append(@, clock)]
    /\ UNCHANGED <<clock, built, configVars, frontendVars, store, served>>

\* part_000:62   time.Sleep(node.conf.Heartbeat) is over
BeatWake ==
    /\ beat.loop = "sleep"
    /\ clock >= beat.wake
    /\ beat' = [beat EXCEPT !.loop = "select"]
    /\ UNCHANGED <<configVars, routerVars, frontendVars, store, served>>

\* part_000:71-72   Node.Stop() is called and parks in its send on the
\* unbuffered channel
Stop ==
    /\ beat.stop = "idle"
    /\ beat' = [beat EXCEPT !.stop = "sending"]
    /\ UNCHANGED <<configVars, routerVars, frontendVars, store, served>>

-----------------------------------------------------------------------------
(* Frontend: the data of a call *)

\* the byte sequences a record may hold
DataValues == {<<1>>, <<2>>}

\* the error kinds a node RPC may answer with
NodeErrs == {ErrRecordExists, ErrRecordNotFound, ErrTransport}

NoData == [buf |-> 0, bytes |-> <<>>]

NoRet == [err |-> Nil, data |-> NoData, by |-> "none"]

Ret(err, data, by) == [err |-> err, data |-> data, by |-> by]

\* okCount, errCounts, dataCounts of a call, and the responses read so far;
\* a Go map answers 0 for a key it does not hold
Tally0 ==
    [got |-> 0, okCount |-> 0,
     errCounts |-> [e \in NodeErrs |-> 0],
     dataCounts |-> [b \in DataValues |-> 0]]

\* RC.NodesFind was not called
NoFind == [nodes |-> <<>>, err |-> Nil]

IdleReq ==
    [op |-> "none", k |-> 0, d |-> <<>>, pc |-> "idle", nodes |-> <<>>,
     pending |-> {}, results |-> <<>>, arrived |-> <<>>, tally |-> Tally0,
     ret |-> NoRet, roster |-> <<>>, wake |-> 0, hung |-> {}, rc |-> NoFind]

\* every response the tasks of a call have written, in the order written
SentLog(q) == q.arrived \o q.results

\* what NC.Put, NC.Del, NC.Get may answer; buf names the buffer of a Get reply
NodeReplies(op, buf) ==
    IF op = "Put" THEN {[err |-> e, data |-> NoData] : e \in {Nil, ErrRecordExists, ErrTransport}}
    ELSE IF op = "Del" THEN {[err |-> e, data |-> NoData] : e \in {Nil, ErrRecordNotFound, ErrTransport}}
    ELSE {[err |-> e, data |-> NoData] : e \in {ErrRecordNotFound, ErrTransport}}
         \cup {[err |-> Nil, data |-> [buf |-> buf, bytes |-> b]] : b \in DataValues}

\* what RC.NodesFind may answer: the Router's answer, a transport error, or
\* the answer of a Router that demands fewer live nodes than this Frontend
RCNodesFind(k) ==
    {NodesFindResult(k, heartbeat, clock), [nodes |-> <<>>, err |-> ErrTransport],
     [nodes |-> foundNodes(Placement(k, Roster), heartbeat, clock), err |-> Nil]}

\* frontend.go:168   string(result.data): the bytes, without the buffer
String(data) == data.bytes

-----------------------------------------------------------------------------
(* Frontend: the quorum tallies *)

\* frontend.go:77-82   one response read by applyPutDel
PutDelRecv(t, res) ==
    IF res.err = Nil
    THEN [t EXCEPT !.got = @ + 1, !.okCount = @ + 1]
    ELSE [t EXCEPT !.got = @ + 1, !.errCounts[res.err] = @ + 1]

\* a faulty variant: the loop waits for one response more than there are nodes
LoopOverLate(t, n) == t.got = n + 1

\* a faulty variant: the loop also ends once M successes are in
LoopOverEarly(t, n) == t.got = n \/ t.okCount >= MinRedundancy

\* frontend.go:76, 157   for range nodes: one read per node
LoopOver(t, n) == t.got = n

\* a faulty variant: one success is enough
DecisionsOneOk(t) ==
    IF t.okCount >= 1 THEN {Nil}
    ELSE LET agreed == {e \in NodeErrs : t.errCounts[e] >= MinRedundancy}
         IN  IF agreed = {} THEN {ErrQuorumNotReached} ELSE agreed

\* a faulty variant: any error kind that was reported is returned
DecisionsAnyErr(t) ==
    IF t.okCount >= MinRedundancy THEN {Nil}
    ELSE LET agreed == {e \in NodeErrs : t.errCounts[e] >= 1}
         IN  IF agreed = {} THEN {ErrQuorumNotReached} ELSE agreed

\* frontend.go:85-95   the decision of applyPutDel; the range over the map
\* errCounts visits its keys in no fixed order
Decisions(t) ==
    IF t.okCount >= MinRedundancy THEN {Nil}
    ELSE LET agreed == {e \in NodeErrs : t.errCounts[e] >= MinRedundancy}
         IN  IF agreed = {} THEN {ErrQuorumNotReached} ELSE agreed

\* a faulty variant: an error needs more than M reports
ErrQuorumLate(n) == n > MinRedundancy

\* frontend.go:162   errCounts[result.err] >= storage.MinRedundancy
ErrQuorum(n) == n >= MinRedundancy

\* a faulty variant: the first value read is returned
DataQuorumFirst(n) == n >= 1

\* frontend.go:170   dataCounts[dataKey] >= storage.MinRedundancy
DataQuorum(n) == n >= MinRedundancy

\* frontend.go:158-172   one response read by Get: the tally and what Get
\* returns at this response, NoRet if it goes on
GetRecv(t, res) ==
    IF res.err # Nil
    THEN LET t1 == [t EXCEPT !.got = @ + 1, !.errCounts[res.err] = @ + 1]
         IN  [tally |-> t1,
              ret |-> IF ErrQuorum(t1.errCounts[res.err])
                      THEN Ret(res.err, NoData, "quorum") ELSE NoRet]
    ELSE LET dataKey == String(res.data)
             t1 == [t EXCEPT !.got = @ + 1, !.dataCounts[dataKey] = @ + 1]
         IN  [tally |-> t1,
              ret |-> IF DataQuorum(t1.dataCounts[dataKey])
                      THEN Ret(Nil, res.data, "quorum") ELSE NoRet]

-----------------------------------------------------------------------------
(* Frontend: Put and Del *)

\* a faulty variant: the list is never found too short
ListTooShortNever(nodes) == FALSE

\* frontend.go:62   len(nodes) < storage.MinRedundancy
ListTooShort(nodes) == Len(nodes) < MinRedundancy

\* frontend.go:57-71   NodesFind, the length check and the fan-out
applyPutDel(c, op, k, d) ==
    /\ req[c].pc = "idle"
    /\ \E r \in RCNodesFind(k) :
         req' = [req EXCEPT ![c] =
            IF r.err # Nil
            THEN [@ EXCEPT !.op = op, !.k = k, !.d = d, !.pc = "done", !.rc = r,
                           !.ret = Ret(r.err, NoData, "router")]
            ELSE IF ListTooShort(r.nodes)
            THEN [@ EXCEPT !.op = op, !.k = k, !.d = d, !.pc = "done", !.rc = r,
                           !.ret = Ret(ErrNotEnoughDaemons, NoData, "length")]
            ELSE [@ EXCEPT !.op = op, !.k = k, !.d = d, !.pc = "collect", !.rc = r,
                           !.nodes = r.nodes, !.pending = Range(r.nodes)]]
    /\ UNCHANGED <<configVars, nodeVars, routerVars, initOnce, routerNodes, listLog>>

\* Frontend.Put(k, d)
Put(c, k, d) == applyPutDel(c, "Put", k, d)

\* Frontend.Del(k)
Del(c, k) == applyPutDel(c, "Del", k, <<>>)

\* a faulty variant: the results channel has no buffer
ChanCapNone(nodes) == 0

\* frontend.go:66, 143   make(chan ..., len(nodes))
ChanCap(nodes) == Len(nodes)

\* a faulty variant: an RPC that hangs is cut off and returns
ReturningAll(q) == q.pending

\* frontend.go:69, 148   the RPCs of a call that return: the RPC is awaited
\* with no deadline, a hanging one is not among them
Returning(q) == q.pending \ q.hung

\* frontend.go:69, 148   the node RPC of a waiting call hangs for good
Hang(c, n) ==
    /\ req[c].pc = "collect"
    /\ n \in req[c].pending
    /\ req[c].hung = {}
    /\ req' = [req EXCEPT ![c].hung = {n}]
    /\ UNCHANGED <<configVars, nodeVars, routerVars, initOnce, routerNodes, listLog>>

\* frontend.go:68-70, 147-150   the task of one node: the RPC and the write
\* to the results channel; an RPC that hangs never gets here
Task(c, n) ==
    /\ n \in Returning(req[c])
    /\ Len(req[c].results) < ChanCap(req[c].nodes)
    /\ \E res \in NodeReplies(req[c].op, Len(SentLog(req[c])) + 1) :
         req' = [req EXCEPT ![c].pending = @ \ {n},
                            ![c].results = Append(@, res)]
    /\ UNCHANGED <<configVars, nodeVars, routerVars, initOnce, routerNodes, listLog>>

\* frontend.go:68-70, 147-150   the task of one node when the RPC is served
\* by the Node itself: Node.Put, Node.Del or Node.Get on its storage, then
\* the write to the results channel
NodeTask(c, n) ==
    /\ n \in Returning(req[c])
    /\ Len(req[c].results) < ChanCap(req[c].nodes)
    /\ LET q == req[c]
           put == NodePutResult(store[n], q.k, q.d)
           del == NodeDelResult(store[n], q.k)
           get == NodeGetResult(store[n], q.k)
           res == IF q.op = "Put" THEN [err |-> put.err, data |-> NoData]
                  ELSE IF q.op = "Del" THEN [err |-> del.err, data |-> NoData]
                  ELSE IF get.err # Nil THEN [err |-> get.err, data |-> NoData]
                  ELSE [err |-> Nil,
                        data |-> [buf |-> Len(SentLog(q)) + 1, bytes |-> get.data]]
       IN  /\ store' = [store EXCEPT ![n] = IF q.op = "Put" THEN put.st
                                           ELSE IF q.op = "Del" THEN del.st
                                           ELSE @]
           /\ req' = [req EXCEPT ![c].pending = @ \ {n},
                                  ![c].results = Append(@, res)]
    /\ UNCHANGED <<configVars, routerVars, initOnce, routerNodes, listLog, beat, served>>

\* frontend.go:76-95   applyPutDel reads one response; after the last one it
\* decides
PutDelCollect(c) ==
    /\ req[c].pc = "collect"
    /\ req[c].op \in {"Put", "Del"}
    /\ req[c].results # <<>>
    /\ LET res == Head(req[c].results)
           t1 == PutDelRecv(req[c].tally, res)
       IN  \E e \in Decisions(t1) :
             req' = [req EXCEPT ![c] =
                [@ EXCEPT !.results = Tail(@), !.arrived = Append(@, res),
                          !.tally = t1,
                          !.pc = IF LoopOver(t1, Len(req[c].nodes)) THEN "done" ELSE "collect",
                          !.ret = IF LoopOver(t1, Len(req[c].nodes))
                                  THEN Ret(e, NoData, "quorum") ELSE NoRet]]
    /\ UNCHANGED <<configVars, nodeVars, routerVars, initOnce, routerNodes, listLog>>

-----------------------------------------------------------------------------
(* Frontend: Get *)

\* Frontend.Get(k) is called
Get(c, k) ==
    /\ req[c].pc = "idle"
    /\ req' = [req EXCEPT ![c].op = "Get", ![c].k = k, ![c].pc = "once"]
    /\ UNCHANGED <<configVars, nodeVars, routerVars, initOnce, routerNodes, listLog>>

\* a faulty variant: the initialiser runs whenever it has not finished
OnceFreeRacy(o) == o # "done"

\* sync.Once: the function runs for the first caller only
OnceFree(o) == o = "fresh"

\* frontend.go:126   initOnce.Do: the first caller runs the initialiser, a
\* caller that finds it done goes on, a caller that finds it running waits
OnceDo(c) ==
    /\ req[c].pc = "once"
    /\ IF initOnce = "done"
       THEN /\ req' = [req EXCEPT ![c].pc = "place"]
            /\ UNCHANGED initOnce
       ELSE /\ OnceFree(initOnce)
            /\ initOnce' = "running"
            /\ req' = [req EXCEPT ![c].pc = "list"]
    /\ UNCHANGED <<configVars, nodeVars, routerVars, routerNodes, listLog>>

\* a faulty variant: the loop is left whatever List answered
ListBreakAlways(err) == TRUE

\* frontend.go:129   if err == nil
ListBreak(err) == err = Nil

\* frontend.go:133   time.Sleep(InitTimeout)
SleepUntil(now) == now + InitTimeout

\* frontend.go:128-133   one List RPC of the initialiser; err is what the
\* RPC answers
ListCall(c, err) ==
    /\ req[c].pc = "list"
    /\ err # Nil => /\ Cardinality({i \in 1..Len(listLog) : listLog[i].err # Nil})
                        < MaxListFails
                     /\ SleepUntil(clock) <= MaxClock
    /\ listLog' = Append(listLog, [by |-> c, at |-> clock, err |-> err,
                                    wrote |-> ListBreak(err)])
    /\ IF ListBreak(err)
       THEN /\ routerNodes' = (IF err = Nil THEN ListResult ELSE <<>>)
            /\ initOnce' = "done"
            /\ req' = [req EXCEPT ![c].pc = "place"]
       ELSE /\ req' = [req EXCEPT ![c].pc = "sleep", ![c].wake = SleepUntil(clock)]
            /\ UNCHANGED <<initOnce, routerNodes>>
    /\ UNCHANGED <<configVars, nodeVars, routerVars>>

\* frontend.go:133   the sleep is over
Wake(c) ==
    /\ req[c].pc = "sleep"
    /\ clock >= req[c].wake
    /\ req' = [req EXCEPT ![c].pc = "list"]
    /\ UNCHANGED <<configVars, nodeVars, routerVars, initOnce, routerNodes, listLog>>

\* a faulty variant: Get leaves out the nodes the Router holds for dead
GetReplicasAlive(k, roster) == foundNodes(Placement(k, roster), heartbeat, clock)

\* frontend.go:137   fe.conf.NF.NodesFind(k, fe.routerNodes)
GetReplicas(k, roster) == Placement(k, roster)

\* frontend.go:137-151   the placement on the cached roster and the fan-out
GetFanout(c) ==
    /\ req[c].pc = "place"
    /\ LET nodes == GetReplicas(req[c].k, routerNodes)
       IN  req' = [req EXCEPT ![c] =
              IF nodes = <<>>
              THEN [@ EXCEPT !.roster = routerNodes, !.pc = "done",
                             !.ret = Ret(ErrQuorumNotReached, NoData, "quorum")]
              ELSE [@ EXCEPT !.roster = routerNodes, !.nodes = nodes,
                             !.pending = Range(nodes), !.pc = "collect"]]
    /\ UNCHANGED <<configVars, nodeVars, routerVars, initOnce, routerNodes, listLog>>

\* frontend.go:157-175   Get reads one response
GetCollect(c) ==
    /\ req[c].pc = "collect"
    /\ req[c].op = "Get"
    /\ req[c].results # <<>>
    /\ LET res == Head(req[c].results)
           g == GetRecv(req[c].tally, res)
           over == LoopOver(g.tally, Len(req[c].nodes))
       IN  req' = [req EXCEPT ![c] =
              [@ EXCEPT !.results = Tail(@), !.arrived = Append(@, res),
                        !.tally = g.tally,
                        !.pc = IF g.ret # NoRet \/ over THEN "done" ELSE "collect",
                        !.ret = IF g.ret # NoRet THEN g.ret
                                ELSE IF over THEN Ret(ErrQuorumNotReached, NoData, "quorum")
                                ELSE NoRet]]
    /\ UNCHANGED <<configVars, nodeVars, routerVars, initOnce, routerNodes, listLog>>

-----------------------------------------------------------------------------
(* Specifications *)

RouterNext ==
    \/ \E node \in Addrs : Heartbeat(node)
    \/ \E k \in Keys : NodesFind(k)
    \/ List
    \/ Tick

\* router.New(cfg) at time 0 seeds every heartbeat with the construction time;
\* no Frontend call is made
RouterInit ==
    /\ \E c \in Configs : MinRedundancy = c[1] /\ ReplicationFactor = c[2]
    /\ clock = 0
    /\ heartbeat = [n \in RosterSet |-> 0]
    /\ reply = [op |-> "New", arg |-> 0, val |-> <<>>, err |-> Nil, at |-> 0,
                hb0 |-> [n \in RosterSet |-> 0]]
    /\ initOnce = "fresh"
    /\ routerNodes = <<>>
    /\ listLog = <<>>
    /\ req = <<>>
    /\ built = [st |-> "ok", at |-> 0]
    /\ store = NoStore
    /\ beat = NoBeat
    /\ served = NoCall

SpecRouter == RouterInit /\ [][RouterNext]_vars

\* the configurations router.New is tried on: a roster of NumNodes addresses
\* against a ReplicationFactor of up to one more
NewConfigs == {c \in (1..(NumNodes + 1)) \X (1..(NumNodes + 1)) : c[1] <= c[2]}

\* router.New has not run yet
NewInit ==
    /\ \E c \in NewConfigs : MinRedundancy = c[1] /\ ReplicationFactor = c[2]
    /\ clock = 0
    /\ heartbeat = <<>>
    /\ reply = [op |-> "none", arg |-> 0, val |-> <<>>, err |-> Nil, at |-> 0,
                hb0 |-> <<>>]
    /\ initOnce = "fresh"
    /\ routerNodes = <<>>
    /\ listLog = <<>>
    /\ req = <<>>
    /\ built = [st |-> "no", at |-> 0]
    /\ store = NoStore
    /\ beat = NoBeat
    /\ served = NoCall

\* the Router is built at some time and serves calls once it exists
NewNext ==
    \/ New
    \/ \E node \in RosterSet : built.st = "ok" /\ Heartbeat(node)
    \/ \E k \in Keys : built.st = "ok" /\ NodesFind(k)
    \/ Tick

SpecNew == NewInit /\ [][NewNext]_vars

\* the nodes that serve direct calls
ServedNodes == {n \in RosterSet : n <= 2}

\* Each Node serves Put, Del and Get calls in any order; the calls of
\* concurrent callers are serialised by its node.lock.
NodeInit ==
    /\ \E c \in GetConfigs : MinRedundancy = c[1] /\ ReplicationFactor = c[2]
    /\ clock = 0
    /\ heartbeat = [n \in RosterSet |-> 0]
    /\ reply = [op |-> "New", arg |-> 0, val |-> <<>>, err |-> Nil, at |-> 0,
                hb0 |-> [n \in RosterSet |-> 0]]
    /\ initOnce = "fresh"
    /\ routerNodes = <<>>
    /\ listLog = <<>>
    /\ req = <<>>
    /\ built = [st |-> "ok", at |-> 0]
    /\ store = NoStore
    /\ beat = NoBeat
    /\ served = NoCall

NodeNext ==
    \/ \E n \in ServedNodes, k \in Keys, d \in DataValues : NodePut(n, k, d)
    \/ \E n \in ServedNodes, k \in Keys : NodeDel(n, k)
    \/ \E n \in ServedNodes, k \in Keys : NodeGet(n, k)

SpecNode == NodeInit /\ [][NodeNext]_vars

\* the bytes a replica may hold from an earlier Put
OldData == <<2>>

\* the largest ReplicationFactor the runs on live Nodes are made with
MaxReplicas == 3

\* the configurations of the runs on live Nodes
StoreConfigs == {c \in Configs : c[2] <= MaxReplicas}

\* the three callers: one Put, one Del and one Get on the same key
Callers == {"put", "del", "get"}

\* A Frontend in front of live Nodes that answer every RPC: a Put, a Del
\* that starts while the Put runs, and a Get that starts after the Put has
\* returned success; each replica holds nothing or OldData under the key.
StoreInit ==
    /\ \E c \in StoreConfigs : MinRedundancy = c[1] /\ ReplicationFactor = c[2]
    /\ clock = 0
    /\ heartbeat = [n \in RosterSet |-> 0]
    /\ reply = [op |-> "New", arg |-> 0, val |-> <<>>, err |-> Nil, at |-> 0,
                hb0 |-> [n \in RosterSet |-> 0]]
    /\ initOnce = "fresh"
    /\ routerNodes = <<>>
    /\ listLog = <<>>
    /\ req = [c \in Callers |-> IdleReq]
    /\ built = [st |-> "ok", at |-> 0]
    /\ \E k0 \in GetKeys : \E S \in SUBSET Range(Placement(k0, Roster)) :
         store = [n \in RosterSet |-> IF n \in S THEN [k \in GetKeys |-> OldData]
                                       ELSE <<>>]
    /\ beat = NoBeat
    /\ served = NoCall

StoreNext ==
    \/ \E k \in GetKeys, d \in DataValues \ {OldData} : Put("put", k, d)
    \/ \E k \in GetKeys : req["put"].pc = "collect" /\ Del("del", k)
    \/ \E k \in GetKeys :
         req["put"].pc = "done" /\ req["put"].ret.err = Nil /\ Get("get", k)
    \/ \E c \in DOMAIN req : OnceDo(c)
    \/ \E c \in DOMAIN req : ListCall(c, Nil)
    \/ \E c \in DOMAIN req : GetFanout(c)
    \/ \E c \in DOMAIN req, n \in RosterSet : NodeTask(c, n)
    \/ \E c \in DOMAIN req : PutDelCollect(c)
    \/ \E c \in DOMAIN req : GetCollect(c)

SpecStore == StoreInit /\ [][StoreNext]_vars

\* the configurations of the runs with two concurrent calls
LiveConfigs == GetConfigs

\* the two concurrent callers
LiveCallers == {"a", "b"}

\* Two callers use a fresh Frontend concurrently while the clock runs; every
\* heartbeat is fresh, every node RPC returns, List fails MaxListFails times
\* at most.
LiveInit ==
    /\ \E c \in LiveConfigs : MinRedundancy = c[1] /\ ReplicationFactor = c[2]
    /\ clock = 0
    /\ heartbeat = [n \in RosterSet |-> 0]
    /\ reply = [op |-> "New", arg |-> 0, val |-> <<>>, err |-> Nil, at |-> 0,
                hb0 |-> [n \in RosterSet |-> 0]]
    /\ initOnce = "fresh"
    /\ routerNodes = <<>>
    /\ listLog = <<>>
    /\ req = [c \in LiveCallers |-> IdleReq]
    /\ built = [st |-> "ok", at |-> 0]
    /\ store = NoStore
    /\ beat = NoBeat
    /\ served = NoCall

\* frontend.go:133   a caller is in time.Sleep
Sleeping == \E c \in DOMAIN req : req[c].pc = "sleep"

\* a step of the goroutines of call c: the caller's own and its tasks
Step(c) ==
    \/ OnceDo(c)
    \/ ListCall(c, Nil)
    \/ listLog = <<>> /\ ListCall(c, ErrTransport)
    \/ Wake(c)
    \/ GetFanout(c)
    \/ \E n \in RosterSet : Task(c, n)
    \/ PutDelCollect(c)
    \/ GetCollect(c)

LiveNext ==
    \/ \E c \in DOMAIN req, k \in GetKeys, d \in DataValues \ {OldData} : Put(c, k, d)
    \/ \E c \in DOMAIN req, k \in GetKeys : Del(c, k)
    \/ \E c \in DOMAIN req, k \in GetKeys : Get(c, k)
    \/ \E c \in DOMAIN req : OnceDo(c)
    \/ \E c \in DOMAIN req : ListCall(c, Nil)
    \/ \E c \in DOMAIN req : listLog = <<>> /\ ListCall(c, ErrTransport)
    \/ \E c \in DOMAIN req : Wake(c)
    \/ \E c \in DOMAIN req : GetFanout(c)
    \/ \E c \in DOMAIN req, n \in RosterSet : Task(c, n)
    \/ \E c \in DOMAIN req : PutDelCollect(c)
    \/ \E c \in DOMAIN req : GetCollect(c)
    \/ Sleeping /\ Tick

\* the Go scheduler runs every goroutine that can take a step, every RPC
\* returns and the time of a sleep passes
SpecLive ==
    /\ LiveInit /\ [][LiveNext]_vars
    /\ \A c \in LiveCallers : WF_vars(Step(c))
    /\ WF_vars(Sleeping /\ Tick)

\* the heartbeat intervals of the Node: one or two steps of the clock
Intervals == {TickStep, 2 * TickStep}

\* the addresses the Node may have: a served one and an unknown one
BeatAddrs == {a \in Addrs : a <= 1 \/ a > NumNodes}

\* A Node next to a Router built at time 0; Heartbeats and Stop are called
\* at any time, once each.
BeatInit ==
    /\ \E c \in GetConfigs : MinRedundancy = c[1] /\ ReplicationFactor = c[2]
    /\ clock = 0
    /\ heartbeat = [n \in RosterSet |-> 0]
    /\ reply = [op |-> "New", arg |-> 0, val |-> <<>>, err |-> Nil, at |-> 0,
                hb0 |-> [n \in RosterSet |-> 0]]
    /\ initOnce = "fresh"
    /\ routerNodes = <<>>
    /\ listLog = <<>>
    /\ req = <<>>
    /\ built = [st |-> "ok", at |-> 0]
    /\ store = NoStore
    /\ \E a \in BeatAddrs, e \in Intervals :
         beat = [NoBeat EXCEPT !.addr = a, !.every = e]
    /\ served = NoCall

\* the clock advances; while the Heartbeat RPC runs, only as far as leaves
\* the sleep that follows within MaxClock
BeatTick ==
    /\ beat.loop = "rpc" => clock + TickStep + beat.every <= MaxClock
    /\ Tick

BeatNext ==
    \/ Heartbeats
    \/ BeatSelect
    \/ BeatRpc
    \/ BeatWake
    \/ Stop
    \/ BeatTick

\* the goroutine of the loop is scheduled, the Heartbeat RPC returns and
\* time passes
SpecBeat ==
    /\ BeatInit /\ [][BeatNext]_vars
    /\ WF_vars(BeatSelect) /\ WF_vars(BeatRpc) /\ WF_vars(BeatWake)
    /\ WF_vars(BeatTick)

\* One Frontend call at a time MaxClock after the Router was built; the
\* nodes 1..s last sent a heartbeat at time 0, the others just now.
FrontendInit ==
    /\ \E c \in Configs : MinRedundancy = c[1] /\ ReplicationFactor = c[2]
    /\ clock = MaxClock
    /\ \E s \in 0..NumNodes :
         heartbeat = [n \in RosterSet |-> IF n <= s THEN 0 ELSE MaxClock]
    /\ reply = [op |-> "List", arg |-> 0, val |-> Roster, err |-> Nil, at |-> MaxClock,
                hb0 |-> heartbeat]
    /\ initOnce = "fresh"
    /\ routerNodes = <<>>
    /\ listLog = <<>>
    /\ req = [c \in {1} |-> IdleReq]
    /\ built = [st |-> "ok", at |-> 0]
    /\ store = NoStore
    /\ beat = NoBeat
    /\ served = NoCall

FrontendNext ==
    \/ \E c \in DOMAIN req, k \in Keys, d \in DataValues : Put(c, k, d)
    \/ \E c \in DOMAIN req, k \in Keys : Del(c, k)
    \/ \E c \in DOMAIN req, k \in Keys : Get(c, k)
    \/ \E c \in DOMAIN req : OnceDo(c)
    \/ \E c \in DOMAIN req : ListCall(c, Nil)
    \/ \E c \in DOMAIN req : GetFanout(c)
    \/ \E c \in DOMAIN req, n \in RosterSet : Task(c, n)
    \/ \E c \in DOMAIN req : PutDelCollect(c)
    \/ \E c \in DOMAIN req : GetCollect(c)

SpecFrontend == FrontendInit /\ [][FrontendNext]_vars

\* the steps of one Frontend call of which one node RPC may hang
HangNext ==
    \/ \E c \in DOMAIN req, k \in Keys, d \in DataValues : Put(c, k, d)
    \/ \E c \in DOMAIN req, k \in Keys : Del(c, k)
    \/ \E c \in DOMAIN req, k \in Keys : Get(c, k)
    \/ \E c \in DOMAIN req : OnceDo(c)
    \/ \E c \in DOMAIN req : ListCall(c, Nil)
    \/ \E c \in DOMAIN req : GetFanout(c)
    \/ \E c \in DOMAIN req, n \in RosterSet : Hang(c, n)
    \/ \E c \in DOMAIN req, n \in RosterSet : Task(c, n)
    \/ \E c \in DOMAIN req : PutDelCollect(c)
    \/ \E c \in DOMAIN req : GetCollect(c)

SpecHang == FrontendInit /\ [][HangNext]_vars

\* NumGets clients call Get on a fresh Frontend while the clock runs and the
\* List RPC may fail; every heartbeat is fresh.
GetInit ==
    /\ \E c \in GetConfigs : MinRedundancy = c[1] /\ ReplicationFactor = c[2]
    /\ clock = 0
    /\ heartbeat = [n \in RosterSet |-> 0]
    /\ reply = [op |-> "New", arg |-> 0, val |-> <<>>, err |-> Nil, at |-> 0,
                hb0 |-> [n \in RosterSet |-> 0]]
    /\ initOnce = "fresh"
    /\ routerNodes = <<>>
    /\ listLog = <<>>
    /\ req = [c \in 1..NumGets |-> IdleReq]
    /\ built = [st |-> "ok", at |-> 0]
    /\ store = NoStore
    /\ beat = NoBeat
    /\ served = NoCall

GetNext ==
    \/ \E c \in DOMAIN req, k \in GetKeys : Get(c, k)
    \/ \E c \in DOMAIN req : OnceDo(c)
    \/ \E c \in DOMAIN req, err \in {Nil, ErrTransport} : ListCall(c, err)
    \/ \E c \in DOMAIN req : Wake(c)
    \/ \E c \in DOMAIN req : GetFanout(c)
    \/ \E c \in DOMAIN req, n \in RosterSet : Task(c, n)
    \/ \E c \in DOMAIN req : GetCollect(c)
    \/ Tick

SpecGet == GetInit /\ [][GetNext]_vars

-----------------------------------------------------------------------------
(* Router: the claims *)

\* the elements of s, in order, that satisfy the liveness predicate at now
Survivors(s, now) ==
    SelectSeq(s, LAMBDA n : now - heartbeat[n] <= ForgetTimeout)

\* C4: NodesFind(k) at time now returns exactly the elements of
\* placement(k, roster) whose heartbeat t has now - t <= ForgetTimeout, in
\* placement order (the whole placement when every heartbeat is fresh), and
\* fails with NotEnoughDaemons, with no list, iff fewer than M survive.
RouterLivenessFilter ==
    reply.op = "NodesFind" =>
        LET placed == Placement(reply.arg, Roster)
            alive == Survivors(placed, reply.at)
        IN  /\ reply.err \in {Nil, ErrNotEnoughDaemons}
            /\ reply.err = ErrNotEnoughDaemons <=> Len(alive) < MinRedundancy
            /\ reply.err # Nil => reply.val = <<>>
            /\ reply.err = Nil => reply.val = alive
            /\ (\A n \in RosterSet : reply.at - heartbeat[n] <= ForgetTimeout)
                    => reply.err = Nil /\ reply.val = placed

\* a NodesFind that dropped a forgotten node and kept one whose heartbeat is
\* exactly ForgetTimeout old
RouterLivenessFilterWitness ==
    /\ reply.op = "NodesFind"
    /\ reply.err = Nil
    /\ Len(reply.val) < Len(Placement(reply.arg, Roster))
    /\ \E i \in 1..Len(reply.val) : reply.at - heartbeat[reply.val[i]] = ForgetTimeout

\* C5: Heartbeat(node) of a node outside the roster fails with UnknownDaemon
\* and leaves the table as it was; of a roster node it succeeds, sets that
\* node's timestamp to the current time and leaves the others unchanged.
HeartbeatContract ==
    reply.op = "Heartbeat" =>
        IF reply.arg \notin RosterSet
        THEN reply.err = ErrUnknownDaemon /\ heartbeat = reply.hb0
        ELSE /\ reply.err = Nil
             /\ heartbeat = [reply.hb0 EXCEPT ![reply.arg] = reply.at]

\* a heartbeat that moved one timestamp forward while another node's stayed
\* behind
HeartbeatContractWitness ==
    /\ reply.op = "Heartbeat"
    /\ reply.err = Nil
    /\ heartbeat[reply.arg] > reply.hb0[reply.arg]
    /\ \E n \in RosterSet : heartbeat[n] < heartbeat[reply.arg]

\* C6: the keys of the HeartbeatTable are the roster addresses in every
\* state; NodesFind and List leave the table as it was; List returns the full
\* roster whatever the heartbeat ages.
TableCoversRoster ==
    /\ DOMAIN heartbeat = RosterSet
    /\ reply.op \in {"NodesFind", "List"} => heartbeat = reply.hb0
    /\ reply.op = "List" => reply.err = Nil /\ reply.val = Roster

\* List answered with the full roster while a node was forgotten
TableCoversRosterWitness ==
    /\ reply.op = "List"
    /\ reply.val = Roster
    /\ \E n \in RosterSet : reply.at - heartbeat[n] > ForgetTimeout
    /\ \E n \in RosterSet : heartbeat[n] > 0

-----------------------------------------------------------------------------
(* Frontend: the claims on one call *)

\* how many responses of s report error kind e (Nil: success)
CountErr(s, e) == Cardinality({i \in 1..Len(s) : s[i].err = e})

\* how many responses of s carry the bytes b
CountData(s, b) ==
    Cardinality({i \in 1..Len(s) : s[i].err = Nil /\ s[i].data.bytes = b})

\* no value and no error kind was reported M times in s
NoQuorumIn(s) ==
    /\ \A e \in NodeErrs : CountErr(s, e) < MinRedundancy
    /\ \A b \in DataValues : CountData(s, b) < MinRedundancy

IsPutDel(q) == q.op \in {"Put", "Del"}

\* C1: a Put or Del that fanned out returns success only if at least M of
\* the contacted nodes reported success, an error kind e only if at least M
\* reported e, and QuorumNotReached otherwise.
QuorumSoundness ==
    \A c \in DOMAIN req :
        LET q == req[c]
            rep == SentLog(q)
        IN  (IsPutDel(q) /\ q.ret.by = "quorum") =>
                /\ Len(rep) <= Len(q.nodes)
                /\ q.ret.err = Nil => CountErr(rep, Nil) >= MinRedundancy
                /\ q.ret.err \notin {Nil, ErrQuorumNotReached}
                        => CountErr(rep, q.ret.err) >= MinRedundancy
                /\ q.ret.err = ErrQuorumNotReached
                        <=> /\ CountErr(rep, Nil) < MinRedundancy
                            /\ \A e \in NodeErrs : CountErr(rep, e) < MinRedundancy

\* a Put answered RecordExists although one node stored the record
QuorumSoundnessWitness ==
    \E c \in DOMAIN req :
        /\ req[c].op = "Put"
        /\ req[c].ret.by = "quorum"
        /\ req[c].ret.err = ErrRecordExists
        /\ CountErr(SentLog(req[c]), Nil) >= 1

\* C2: Get returns bytes b with no error only if at least M replicas of the
\* request returned a byte sequence identical to b, and the buffer returned
\* is the buffer of one of those replies.
GetAgreement ==
    \A c \in DOMAIN req :
        LET q == req[c]
            same == {i \in 1..Len(q.arrived) :
                        /\ q.arrived[i].err = Nil
                        /\ q.arrived[i].data.bytes = q.ret.data.bytes}
        IN  (q.op = "Get" /\ q.pc = "done" /\ q.ret.err = Nil) =>
                /\ Cardinality(same) >= MinRedundancy
                /\ \E i \in same : q.arrived[i].data = q.ret.data

\* a Get that returned a value although a replica answered another value
GetAgreementWitness ==
    \E c \in DOMAIN req :
        /\ req[c].op = "Get"
        /\ req[c].pc = "done"
        /\ req[c].ret.err = Nil
        /\ MinRedundancy >= 2
        /\ \E i \in 1..Len(req[c].arrived) :
              /\ req[c].arrived[i].err = Nil
              /\ req[c].arrived[i].data.bytes # req[c].ret.data.bytes

\* the responses of s that report what r reports
Like(s, r) ==
    IF r.err # Nil THEN CountErr(s, r.err) ELSE CountData(s, r.data.bytes)

Front(s) == SubSeq(s, 1, Len(s) - 1)

Last(s) == s[Len(s)]

\* C3: Get returns at the first response that brings a value counter or an
\* error counter to M, with that value or error; it returns QuorumNotReached
\* exactly when every replica has responded and no counter reached M; an
\* error kind other than QuorumNotReached is returned only if M replicas
\* reported it.
GetDecisionRule ==
    \A c \in DOMAIN req :
        LET q == req[c]
            a == q.arrived
        IN  q.op = "Get" =>
                /\ q.pc = "collect" => NoQuorumIn(a) /\ Len(a) < Len(q.nodes)
                /\ (q.pc = "done" /\ q.ret.err # ErrQuorumNotReached) =>
                        /\ a # <<>>
                        /\ NoQuorumIn(Front(a))
                        /\ Like(a, Last(a)) = MinRedundancy
                        /\ q.ret.err = Last(a).err
                        /\ q.ret.data = Last(a).data
                        /\ q.ret.err # Nil => CountErr(a, q.ret.err) >= MinRedundancy
                /\ (q.pc = "done" /\ q.ret.err = ErrQuorumNotReached) =>
                        /\ Len(a) = Len(q.nodes)
                        /\ q.pending = {}
                        /\ NoQuorumIn(a)

\* a Get that returned RecordNotFound before the last replica was read
GetDecisionRuleWitness ==
    \E c \in DOMAIN req :
        /\ req[c].op = "Get"
        /\ req[c].pc = "done"
        /\ req[c].ret.err = ErrRecordNotFound
        /\ Len(req[c].arrived) < Len(req[c].nodes)
        /\ MinRedundancy >= 2

\* C9: Put and Del return a quorum decision only after every node of the
\* fan-out has delivered its response.
NoShortCircuit ==
    \A c \in DOMAIN req :
        LET q == req[c]
        IN  IsPutDel(q) =>
                /\ q.pc = "collect" => q.ret = NoRet
                /\ q.ret.by = "quorum" =>
                        /\ q.pending = {}
                        /\ q.results = <<>>
                        /\ Len(q.arrived) = Len(q.nodes)

\* a Put or Del that had read M successes before its last response
NoShortCircuitWitness ==
    \E c \in DOMAIN req :
        /\ IsPutDel(req[c])
        /\ req[c].ret.by = "quorum"
        /\ Len(req[c].nodes) > MinRedundancy
        /\ CountErr(Front(req[c].arrived), Nil) >= MinRedundancy

\* the value or error a call returns when it reads the responses s of n nodes
RECURSIVE RunPutDel(_, _, _)
RunPutDel(t, s, n) ==
    IF LoopOver(t, n) THEN {[err |-> e, bytes |-> <<>>] : e \in Decisions(t)}
    ELSE IF s = <<>> THEN {}
    ELSE RunPutDel(PutDelRecv(t, Head(s)), Tail(s), n)

RECURSIVE RunGet(_, _, _)
RunGet(t, s, n) ==
    IF LoopOver(t, n) THEN {[err |-> ErrQuorumNotReached, bytes |-> <<>>]}
    ELSE IF s = <<>> THEN {}
    ELSE LET g == GetRecv(t, Head(s))
         IN  IF g.ret # NoRet
             THEN {[err |-> g.ret.err, bytes |-> g.ret.data.bytes]}
             ELSE RunGet(g.tally, Tail(s), n)

Run(op, s) ==
    IF op = "Get" THEN RunGet(Tally0, s, Len(s)) ELSE RunPutDel(Tally0, s, Len(s))

Orders(n) == {p \in [1..n -> 1..n] : \A i, j \in 1..n : p[i] = p[j] => i = j}

\* the call of q, whose nodes have all answered, returns what it returned
\* for every arrival order of the same responses
SameInEveryOrder(q) ==
    \A p \in Orders(Len(SentLog(q))) :
        Run(q.op, [i \in 1..Len(SentLog(q)) |-> SentLog(q)[p[i]]])
            = {[err |-> q.ret.err, bytes |-> q.ret.data.bytes]}

\* C10 as stated: for a fixed multiset of per-node outcomes the value or
\* error returned is the same for every arrival order, for all 1 <= M <= R.
OrderIndependence ==
    \A c \in DOMAIN req :
        (req[c].ret.by = "quorum" /\ req[c].pending = {} /\ req[c].nodes # <<>>)
            => SameInEveryOrder(req[c])

\* C10 amended: the same, for all R and M with M <= R < 2 * M.
OrderIndependenceMajority ==
    \A c \in DOMAIN req :
        (/\ req[c].ret.by = "quorum" /\ req[c].pending = {} /\ req[c].nodes # <<>>
         /\ ReplicationFactor < 2 * MinRedundancy)
            => SameInEveryOrder(req[c])

\* a Get under a majority quorum that returned early, all of whose nodes have
\* answered since, not all alike
OrderIndependenceWitness ==
    \E c \in DOMAIN req :
        /\ req[c].op = "Get"
        /\ req[c].ret.by = "quorum"
        /\ req[c].pending = {}
        /\ ReplicationFactor < 2 * MinRedundancy
        /\ Len(req[c].arrived) < Len(req[c].nodes)
        /\ \E i, j \in 1..Len(SentLog(req[c])) : SentLog(req[c])[i].err # SentLog(req[c])[j].err

-----------------------------------------------------------------------------
(* Frontend: the claims on the roster cache *)

ListOks == {i \in 1..Len(listLog) : listLog[i].err = Nil}

ListWrites == {i \in 1..Len(listLog) : listLog[i].wrote}

\* the Gets that are past initOnce.Do
PastInit == {c \in DOMAIN req : req[c].pc \in {"place", "collect", "done"}}

\* the Gets that have computed their replica list
Placed == {c \in DOMAIN req : req[c].pc \in {"collect", "done"}}

\* the parts of C7 on the cached roster: it is written once, no Get places
\* before it is cached, every Get places on the same roster
RosterCachedOnce ==
    /\ Cardinality(ListWrites) <= 1
    /\ PastInit # {} => Cardinality(ListWrites) = 1 /\ initOnce = "done"
    /\ \A c \in Placed : req[c].roster = routerNodes /\ routerNodes = Roster
    /\ \A c \in DOMAIN req : req[c].pc = "place" => routerNodes = Roster

\* C7 as stated: concurrent Gets on a fresh Frontend coalesce the roster
\* fetch to exactly one List RPC, the cached roster is written exactly once,
\* no Get computes its replica list before the roster is cached, and every
\* Get uses the same cached roster.
CoalescedOneList ==
    /\ Len(listLog) <= 1
    /\ PastInit # {} => Len(listLog) = 1
    /\ RosterCachedOnce

\* C7 amended: the fetch is run by exactly one caller, which issues List RPCs
\* until one succeeds: exactly one List RPC succeeds (and exactly one is
\* issued when the first attempt succeeds); the rest as stated.
CoalescedOneFetch ==
    /\ \A i, j \in 1..Len(listLog) : listLog[i].by = listLog[j].by
    /\ Cardinality(ListOks) <= 1
    /\ PastInit # {} => Cardinality(ListOks) = 1
    /\ (listLog # <<>> /\ listLog[1].err = Nil) => Len(listLog) = 1
    /\ RosterCachedOnce

\* every client has fanned out on the cached roster, fetched at the second
\* attempt
CoalescedOneFetchWitness ==
    /\ Cardinality(DOMAIN req) >= 2
    /\ \A c \in DOMAIN req : req[c].pc = "collect"
    /\ Len(listLog) >= 2

\* C8: while List fails the first Get retries, an attempt then a wait of
\* InitTimeout, issues no node RPC and does not return; once a List succeeds
\* its result is cached, the Get goes on, and no Get calls List again.
FirstGetRetry ==
    /\ ListOks = {} =>
            /\ PastInit = {}
            /\ initOnce # "done"
            /\ routerNodes = <<>>
            /\ \A c \in DOMAIN req : req[c].results = <<>> /\ req[c].arrived = <<>>
    /\ \A i \in 1..(Len(listLog) - 1) :
            /\ listLog[i].err # Nil
            /\ listLog[i + 1].at - listLog[i].at >= InitTimeout
            /\ listLog[i + 1].by = listLog[i].by
    /\ (listLog # <<>> /\ Last(listLog).err # Nil) =>
            /\ req[Last(listLog).by].pc \in {"sleep", "list"}
            /\ req[Last(listLog).by].wake = Last(listLog).at + InitTimeout
    /\ ListOks # {} =>
            /\ initOnce = "done"
            /\ routerNodes = Roster
            /\ req[Last(listLog).by].pc \in {"place", "collect", "done"}

\* List failed twice, then succeeded, and a Get has returned since
FirstGetRetryWitness ==
    /\ Len(listLog) = 3
    /\ ListOks = {3}
    /\ \E c \in DOMAIN req : req[c].pc = "done"
    /\ \E c \in DOMAIN req : req[c].pc = "once"

-----------------------------------------------------------------------------
(* Frontend: the fan-out *)

\* the nodes whose RPC a call has made and whose task has written its result
Answered(q) == Range(q.nodes) \ q.pending

\* a task of the call is stuck in its write to the results channel
Blocked(q) == Returning(q) # {} /\ Len(q.results) >= ChanCap(q.nodes)

\* one task per target node, one result per task, a channel as large as the
\* number of tasks: no task is ever stuck in its write
OneTaskOneResult(q) ==
    /\ q.pending \subseteq Range(q.nodes)
    /\ Cardinality(Range(q.nodes)) = Len(q.nodes)
    /\ Len(SentLog(q)) = Cardinality(Answered(q))
    /\ Len(q.results) <= ChanCap(q.nodes)
    /\ ~Blocked(q)

-----------------------------------------------------------------------------
(* Frontend: the precondition of Put and Del *)

\* the call has made no node RPC
NoNodeRPC(q) == q.nodes = <<>> /\ q.pending = {} /\ SentLog(q) = <<>>

\* C12: a Put or Del whose NodesFind failed returns that error and makes no
\* node RPC; one whose NodesFind returned fewer than MinRedundancy nodes
\* returns NotEnoughDaemons and makes no node RPC; otherwise it makes one
\* RPC to each node of the list and to no other node.
WritePrecondition ==
    \A c \in DOMAIN req :
        (IsPutDel(req[c]) /\ req[c].pc # "idle") =>
            IF req[c].rc.err # Nil
            THEN /\ req[c].pc = "done"
                 /\ req[c].ret.err = req[c].rc.err
                 /\ NoNodeRPC(req[c])
            ELSE IF Len(req[c].rc.nodes) < MinRedundancy
            THEN /\ req[c].pc = "done"
                 /\ req[c].ret.err = ErrNotEnoughDaemons
                 /\ NoNodeRPC(req[c])
            ELSE /\ req[c].nodes = req[c].rc.nodes
                 /\ Answered(req[c]) \cup req[c].pending = Range(req[c].rc.nodes)
                 /\ Len(SentLog(req[c])) = Cardinality(Answered(req[c]))
                 /\ req[c].pc = "done" =>
                       /\ req[c].pending = {}
                       /\ Len(req[c].arrived) = Len(req[c].rc.nodes)

\* NodesFind returned a list that is not empty and shorter than
\* MinRedundancy, and the call has returned
WritePreconditionWitness ==
    \E c \in DOMAIN req :
        /\ IsPutDel(req[c]) /\ req[c].pc = "done"
        /\ req[c].rc.err = Nil
        /\ req[c].rc.nodes # <<>>
        /\ Len(req[c].rc.nodes) < MinRedundancy
        /\ req[c].ret.by = "length"

-----------------------------------------------------------------------------
(* Placement agreement between the Router and Get *)

\* s is t with some elements left out, the others in the order of t
RECURSIVE IsSubList(_, _)
IsSubList(s, t) ==
    IF s = <<>> THEN TRUE
    ELSE IF t = <<>> THEN FALSE
    ELSE IF Head(s) = Head(t) THEN IsSubList(Tail(s), Tail(t))
    ELSE IsSubList(s, Tail(t))

\* C16: whatever the heartbeats, the list Router.NodesFind(k) returns is an
\* order-preserving sub-list of the list Get(k) sends to; Get sends to every
\* node of the placement on the cached roster, dead or alive.
PlacementAgreement ==
    \A c \in DOMAIN req :
        (req[c].op = "Get" /\ req[c].pc \in {"collect", "done"}) =>
            /\ req[c].nodes = Placement(req[c].k, Roster)
            /\ Answered(req[c]) \cup req[c].pending = Range(Placement(req[c].k, Roster))
            /\ IsSubList(NodesFindResult(req[c].k, heartbeat, clock).nodes, req[c].nodes)
            /\ IsSubList(foundNodes(Placement(req[c].k, Roster), heartbeat, clock),
                         req[c].nodes)

\* a Get has had an answer from a node the Router holds for dead, while
\* Router.NodesFind returns a shorter list for the key
PlacementAgreementWitness ==
    \E c \in DOMAIN req :
        /\ req[c].op = "Get" /\ req[c].pc = "done"
        /\ \E n \in Answered(req[c]) : ~Alive(clock, heartbeat[n])
        /\ NodesFindResult(req[c].k, heartbeat, clock).err = Nil
        /\ Len(NodesFindResult(req[c].k, heartbeat, clock).nodes) < Len(req[c].nodes)
-----------------------------------------------------------------------------
(* Router: construction *)

\* no Heartbeat call has changed the table the last NodesFind read
Untouched(hb) == \A n \in DOMAIN hb : hb[n] = built.at

\* C13: router.New fails with NotEnoughDaemons, and yields no Router, exactly
\* when the roster has fewer than ReplicationFactor addresses; a Router it
\* yields holds the construction time for every node of the roster, so with
\* no Heartbeat call NodesFind(k) succeeds and returns the full placement for
\* every k as long as no more than ForgetTimeout has passed since.
RouterConstruction ==
    /\ built.st = "failed" =>
          /\ Len(Roster) < ReplicationFactor
          /\ heartbeat = <<>>
          /\ reply.op = "New" /\ reply.err = ErrNotEnoughDaemons
    /\ built.st = "ok" =>
          /\ Len(Roster) >= ReplicationFactor
          /\ DOMAIN heartbeat = RosterSet
          /\ reply.op = "New" =>
                reply.err = Nil /\ \A n \in RosterSet : heartbeat[n] = built.at
          /\ (reply.op = "NodesFind" /\ Untouched(reply.hb0)
                /\ reply.at - built.at <= ForgetTimeout) =>
                /\ reply.err = Nil
                /\ reply.val = Placement(reply.arg, Roster)
                /\ Len(reply.val) = ReplicationFactor

\* a Router built after time 0 has answered a NodesFind exactly ForgetTimeout
\* later, with no Heartbeat call in between, and the placement has two
\* nodes or more
RouterConstructionWitness ==
    /\ built.st = "ok" /\ built.at > 0
    /\ reply.op = "NodesFind" /\ Untouched(reply.hb0)
    /\ reply.at - built.at = ForgetTimeout
    /\ Len(reply.val) >= 2
-----------------------------------------------------------------------------
(* Node: the records *)

\* the storage of the node that served the last call
Now == store[served.node]

\* C15: under any interleaving of Put, Del and Get calls on one Node, a Put
\* on a key that is present returns RecordExists and leaves the stored bytes
\* as they are, a Put on an absent key stores its bytes, a Del on an absent
\* key returns RecordNotFound and a Del on a present key removes it, and a
\* Get returns the bytes stored or RecordNotFound and changes nothing: the
\* bytes under a key change only through a Del and a later Put.
NodeImmutability ==
    served.op # "none" =>
        LET st0 == served.before
            k == served.k
        IN  /\ \A x \in (DOMAIN st0 \cup DOMAIN Now) \ {k} :
                   x \in DOMAIN st0 /\ x \in DOMAIN Now /\ Now[x] = st0[x]
            /\ (k \in DOMAIN st0 /\ k \in DOMAIN Now) => Now[k] = st0[k]
            /\ served.op = "Put" =>
                  IF k \in DOMAIN st0
                  THEN served.err = ErrRecordExists /\ Now = st0
                  ELSE served.err = Nil /\ k \in DOMAIN Now /\ Now[k] = served.d
            /\ served.op = "Del" =>
                  IF k \in DOMAIN st0
                  THEN served.err = Nil /\ k \notin DOMAIN Now
                  ELSE served.err = ErrRecordNotFound /\ Now = st0
            /\ served.op = "Get" =>
                  /\ Now = st0
                  /\ IF k \in DOMAIN st0
                     THEN served.err = Nil /\ served.data = st0[k]
                     ELSE served.err = ErrRecordNotFound

\* a Put of other bytes on a key that is present was refused and the record
\* is as it was
NodeImmutabilityWitness ==
    /\ served.op = "Put"
    /\ served.err = ErrRecordExists
    /\ served.k \in DOMAIN Now
    /\ Now[served.k] # served.d
-----------------------------------------------------------------------------
(* Read after write *)

\* the Get has returned the bytes b
GetReturned(b) ==
    /\ req["get"].pc = "done"
    /\ req["get"].ret.err = Nil
    /\ String(req["get"].ret.data) = b

\* the Put has returned success
PutSucceeded == req["put"].pc = "done" /\ req["put"].ret.err = Nil

\* C14 as stated: with every roster node alive and every node RPC answered,
\* when Put(k, d) has returned success and no Del(k) is issued after that, a
\* Get(k) issued after the Put returned returns d, never other bytes,
\* RecordNotFound or QuorumNotReached.  (No Del starts after the Put has
\* returned in these runs, and the Get starts after it.)
ReadAfterWrite ==
    (PutSucceeded /\ req["get"].pc = "done") => GetReturned(req["put"].d)

\* C14, amended: with every roster node alive, every node RPC answered and
\* MinRedundancy <= ReplicationFactor < 2 * MinRedundancy, when Put(k, d)
\* has returned success and no Del(k) runs while the Put runs or is issued
\* after it, a Get(k) issued after the Put returned returns d.
ReadAfterQuietWrite ==
    (/\ PutSucceeded /\ req["get"].pc = "done"
     /\ req["del"].pc = "idle"
     /\ ReplicationFactor < 2 * MinRedundancy)
        => GetReturned(req["put"].d)

\* the Put succeeded although one replica held other bytes and refused it,
\* no Del ran, and the Get has returned the bytes of the Put
ReadAfterQuietWriteWitness ==
    /\ PutSucceeded
    /\ CountErr(req["put"].arrived, ErrRecordExists) >= 1
    /\ req["del"].pc = "idle"
    /\ ReplicationFactor < 2 * MinRedundancy
    /\ GetReturned(req["put"].d)
    /\ \E n \in Range(req["get"].nodes) :
          req["get"].k \in DOMAIN store[n] /\ store[n][req["get"].k] = OldData

-----------------------------------------------------------------------------
(* The race of a Put and a Del on one key *)

\* the step is the RPC of call c on node n
RpcStep(c, n) == n \in req[c].pending /\ n \notin req'[c].pending

\* node n applies the Put or Del of call c to what it holds at that moment
AppliedAsObserved(c, n) ==
    LET k == req[c].k
        res == Last(req'[c].results)
    IN  /\ \A x \in RosterSet \ {n} : store'[x] = store[x]
        /\ IF req[c].op = "Put"
           THEN IF k \in DOMAIN store[n]
                THEN res.err = ErrRecordExists /\ store'[n] = store[n]
                ELSE res.err = Nil /\ k \in DOMAIN store'[n]
                     /\ store'[n][k] = req[c].d
           ELSE IF k \in DOMAIN store[n]
                THEN res.err = Nil /\ k \notin DOMAIN store'[n]
                ELSE res.err = ErrRecordNotFound /\ store'[n] = store[n]

\* C18: when a Put and a Del race on one key, every replica applies each of
\* them to what it holds when the RPC reaches it, whatever the order at the
\* other replicas, and nothing else ever changes a replica: no step of a Get
\* and no step taken once the calls have returned repairs a disagreement.
RaceNoRepair ==
    [][\A c \in DOMAIN req, n \in RosterSet :
          IF IsPutDel(req[c]) /\ RpcStep(c, n)
          THEN AppliedAsObserved(c, n)
          ELSE (\A x \in DOMAIN req, y \in RosterSet :
                   ~(IsPutDel(req[x]) /\ RpcStep(x, y))) => store' = store]_vars

\* the Put has returned success on two successes and one RecordExists, the
\* Del has returned success, the Get has returned, and the replicas of the
\* key disagree
RaceNoRepairWitness ==
    /\ PutSucceeded
    /\ CountErr(req["put"].arrived, Nil) = 2
    /\ CountErr(req["put"].arrived, ErrRecordExists) = 1
    /\ req["del"].pc = "done" /\ req["del"].ret.err = Nil
    /\ req["get"].pc = "done"
    /\ \E a, b \in Range(req["put"].nodes) : store[a] # store[b]
-----------------------------------------------------------------------------
(* No timeouts *)

\* C17 as stated: a Put, Del or Get of which a node RPC never returns never
\* returns itself.
NoTimeout ==
    \A c \in DOMAIN req : req[c].hung # {} => req[c].pc # "done"

\* C17, amended: a Put or Del of which a node RPC never returns never
\* returns; a Get of which a node RPC never returns returns only when the
\* responses of the other nodes bring an error counter or a data counter to
\* MinRedundancy, and never returns otherwise.
NoTimeoutButEarlyGet ==
    \A c \in DOMAIN req :
        req[c].hung # {} =>
            /\ req[c].hung \subseteq req[c].pending
            /\ Len(req[c].arrived) < Len(req[c].nodes)
            /\ IsPutDel(req[c]) => req[c].pc # "done"
            /\ (req[c].op = "Get" /\ req[c].pc = "done") =>
                  /\ req[c].ret.err # ErrQuorumNotReached
                  /\ IF req[c].ret.err # Nil
                     THEN CountErr(req[c].arrived, req[c].ret.err) >= MinRedundancy
                     ELSE CountData(req[c].arrived, String(req[c].ret.data))
                             >= MinRedundancy

\* a Put or Del has read the responses of all nodes but the one whose RPC
\* hangs, a success quorum among them, and has not returned
NoTimeoutButEarlyGetWitness ==
    \E c \in DOMAIN req :
        /\ IsPutDel(req[c])
        /\ req[c].hung # {} /\ req[c].pending = req[c].hung
        /\ Len(req[c].arrived) = Len(req[c].nodes) - 1
        /\ CountErr(req[c].arrived, Nil) >= MinRedundancy
        /\ req[c].pc = "collect"
-----------------------------------------------------------------------------
(* Termination *)

\* C19: when every RPC returns and List succeeds in the end, every Put, Del
\* and Get that was called returns, whatever calls run concurrently.
Termination ==
    \A c \in LiveCallers : (req[c].pc # "idle") ~> (req[c].pc = "done")

\* a Get that fetched the roster after a failed List and a sleep has
\* returned, and so has a Put or Del that ran next to it
TerminationWitness ==
    /\ \E i \in 1..Len(listLog) : listLog[i].err # Nil
    /\ \E c \in LiveCallers : req[c].op = "Get" /\ req[c].pc = "done"
    /\ \E c \in LiveCallers :
          IsPutDel(req[c]) /\ req[c].pc = "done" /\ req[c].ret.by = "quorum"
-----------------------------------------------------------------------------
(* Node: the heartbeat loop *)

\* the loop was started and has not returned
Looping == beat.loop \in {"select", "rpc", "sleep"}

\* C20: once Heartbeats() has started the loop, and as the Heartbeat RPC
\* always returns, the loop goes on sending heartbeats, each at least one
\* interval after the one before, as long as Stop is not called and the
\* clock leaves room for an interval; a single call of Stop() returns in the
\* end; once Stop has returned the loop has returned and no heartbeat is
\* sent any more.
HeartbeatLoop ==
    /\ [](\A i \in 1..Len(beat.sent) :
             i > 1 => beat.sent[i] - beat.sent[i - 1] >= beat.every)
    /\ \A i \in 0..(MaxTicks + 1) :
          (Looping /\ beat.stop = "idle" /\ Len(beat.sent) = i)
             ~> \/ Len(beat.sent) > i
                \/ beat.stop # "idle"
                \/ clock + beat.every > MaxClock
    /\ (Looping /\ beat.stop = "sending") ~> (beat.stop = "returned")
    /\ [](beat.stop = "returned" => beat.loop = "returned")
    /\ [][beat.stop = "returned" => beat'.sent = beat.sent]_vars

\* the loop has sent three heartbeats or more, Stop has returned and so has
\* the loop, and time has passed since the last heartbeat
HeartbeatLoopWitness ==
    /\ Len(beat.sent) >= 3
    /\ beat.stop = "returned"
    /\ beat.loop = "returned"
    /\ clock > beat.sent[Len(beat.sent)]
====
